---- MODULE Spec2Model ----
(***************************************************************************)
(* State-machine model of the IT-assets dashboard (src/pages/Dashboard.jsx, *)
(* components/AssetTable, services/assetService).                           *)
(*                                                                          *)
(* One action per event handler, timer callback or network completion.     *)
(* A handler that awaits a network call is split at the await: the part    *)
(* before the await is one action, the continuation runs in the action of  *)
(* the response.  Closures are modelled by what they captured: a           *)
(* continuation reads the values its handler saw when it was invoked, not  *)
(* the current state.                                                      *)
(*                                                                          *)
(* The backend is an external collaborator.  It is modelled as a store     *)
(* that holds `server.mine` assets created by the current user and         *)
(* OtherItems assets created by others.  The user's assets are of company  *)
(* StoreCompany, the others' of companies the model never selects; all are *)
(* of device type StoreDevice and every search term typed matches all of   *)
(* them.  A request may also fail.                                         *)
(***************************************************************************)
EXTENDS Integers, Sequences, FiniteSets, Bags, TLC

\* ------------------------------------------------------------------ bounds
MaxUserActions == 3      \* user events per behaviour
MaxInFlight == 3         \* requests in flight at the same time
OtherItems == 2          \* assets in the store created by other users

\* ------------------------------------------------------- program constants
PageLimit == 20          \* limit: 20 in fetchAssets
DebounceMs == 400        \* setTimeout(..., 400) in handleSearch
Quantum == DebounceMs \div 2   \* granularity of the model's clock

NoError == "null"
ListFailedMsg == "Failed to load assets. Please check if the API server is running."
CreateFailedMsg == "Failed to create asset. Please try again."
UpdateFailedMsg == "Failed to update asset. Please try again."
DeleteFailedMsg == "Failed to delete asset. Please try again."

Users == {[role |-> "admin", id |-> "u1"], [role |-> "user", id |-> "u1"],
          [role |-> "admin", id |-> ""], [role |-> "user", id |-> ""]}
ViewModes == {"all", "my"}
Companies == {"", "TGL"}
DeviceTypes == {"", "Laptop"}
Terms == {<<"D">>, <<"D", "e">>}   \* strings are tuples of characters
StoreCompany == "TGL"
StoreDevice == "Laptop"
InitialMine == {PageLimit + 1}
RemoteMessages == {"", "Asset not found"}   \* "" = the response has no message
NoAsset == "null"
AssetId == "a1"

VARIABLES
  user,               \* useAuth().user: [role, id]; id "" = user?._id is undefined
  phase,              \* "constructed" | "mounted" | "unmounted"
  assets,             \* the loaded page: [rows, own, list, assetData], the number of rows,
                      \* how many of them the user created, the rows a response spelled
                      \* out as stored, and as the response listed them (assetData)
  pagination,         \* [currentPage, totalPages, totalItems]
  viewMode, selectedCompany, selectedDeviceType, searchTerm,
  isLoading, error,
  myAssetCount, deviceCounts,
  isModalOpen, editingAsset, showDeleteConfirm,
  timers,             \* pending setTimeout callbacks of handleSearch
  searchDebounceRef,  \* searchDebounceRef.current
  listReqs,           \* getAllAssets calls of fetchAssets awaiting their response
  countReqs,          \* bag of the getAssetCounts calls awaiting their responses
  mutReqs,            \* createAsset / updateAsset / deleteAsset calls in flight
  server,             \* the backend's store: [mine]
  acts,               \* number of user events so far
  latestPending,      \* the most recently sent list request is still in flight (the last of listReqs)
  staleShown,         \* the last list response applied was not that of the most recently sent request
  hlog,               \* the steps of the latest finished handleAddAsset call, in program order
  burst,              \* [terms, age, fetches]: the keystrokes of the current burst, the ms
                      \* since the last one, the fetches the burst fired
  lastWrite,          \* [kind, ok, remote]: how the last write settled, with the message of its response
  authPage,           \* the auth page shown: "login" | "signup" | "reset" | "dashboard"
  authForm,           \* [password, confirm]: the (new) password field and its confirmation
  authError,          \* error state of the auth page
  authSuccess,        \* success state of the auth page
  authBusy,           \* isLoading of the auth page
  authReqs            \* loginUser / signupUser / resetPassword calls in flight

uiVars == <<assets, pagination, viewMode, selectedCompany, selectedDeviceType,
            searchTerm, isLoading, error, myAssetCount, deviceCounts>>
modalVars == <<isModalOpen, editingAsset, showDeleteConfirm>>
timerVars == <<timers, searchDebounceRef>>
netVars == <<listReqs, countReqs, mutReqs, latestPending>>
histVars == <<staleShown, hlog, burst, lastWrite>>
authVars == <<authPage, authForm, authError, authSuccess, authBusy, authReqs>>
dashVars == <<user, phase, uiVars, modalVars, timerVars, netVars, server, acts, histVars>>
vars == <<dashVars, authVars>>

isAdmin == user.role = "admin"

Min(a, b) == IF a < b THEN a ELSE b
Max(a, b) == IF a > b THEN a ELSE b

\* ----------------------------------------------------------------- backend
\* Number of stored assets a query selects.
ServerCount(companyName, device, createdBy) ==
  IF companyName \notin {"", StoreCompany} \/ device \notin {"", StoreDevice} THEN 0
  ELSE IF createdBy = ""
    THEN server.mine + (IF companyName = "" THEN OtherItems ELSE 0)
  ELSE IF createdBy = user.id THEN server.mine
  ELSE 0

\* GET /assets: the page of rows and the pagination block for a list request.
\* Rows are newest first and the current user's assets are the newest.
ServerPage(r) ==
  LET total == ServerCount(r.companyName, r.device, r.createdBy)
      mine == ServerCount(r.companyName, r.device, user.id)
      offset == (r.page - 1) * PageLimit
      rows == Max(0, Min(PageLimit, total - offset))
      own == IF user.id = "" THEN 0
             ELSE IF r.createdBy # "" THEN rows
             ELSE Max(0, Min(rows, mine - offset))
  IN [assets |-> [rows |-> rows, own |-> own],
      pagination |-> [currentPage |-> r.page,
                      totalPages |-> Max(1, (total + PageLimit - 1) \div PageLimit),
                      totalItems |-> total]]

\* ------------------------------------------------------------ query scope
\* A scope expression that forgets the view-mode.
CreatedByFilterNoViewMode(vm) == IF ~isAdmin THEN user.id ELSE ""

\* (!isAdmin || viewMode === "my") ? user?._id : ""   as seen by a handler
\* whose closure holds view-mode vm.
CreatedByFilter(vm) == IF ~isAdmin \/ vm = "my" THEN user.id ELSE ""

\* The refresh button's own expression.
RefreshCreatedBy(vm) == IF ~isAdmin THEN user.id ELSE (IF vm = "my" THEN user.id ELSE "")

\* const createdByFilter = !isAdmin ? user?._id : ""   (device counts)
CountsCreatedBy == IF ~isAdmin THEN user.id ELSE ""

\* getAssetCounts(companyName = ""): the request it sends.  The function
\* declares one parameter; the second argument of its callers is dropped.
GetAssetCounts(companyName, createdByArg) ==
  [companyName |-> companyName, createdBy |-> ""]

RECURSIVE TrimStart(_)
TrimStart(s) == IF s # <<>> /\ Head(s) = " " THEN TrimStart(Tail(s)) ELSE s
RECURSIVE TrimEnd(_)
TrimEnd(s) == IF s # <<>> /\ s[Len(s)] = " " THEN TrimEnd(SubSeq(s, 1, Len(s) - 1)) ELSE s
Trim(s) == TrimEnd(TrimStart(s))

\* A query builder that appends every non-empty search as it is.
GetAllAssetsNoTrim(o) ==
  LET given == {k \in {"search", "companyName", "device", "createdBy"} :
                  IF k = "search" THEN o[k] # <<>> ELSE o[k] # ""}
  IN [k \in {"page", "limit", "sortBy", "order"} \cup given |->
        IF k = "sortBy" THEN "createdAt" ELSE IF k = "order" THEN "desc" ELSE o[k]]

\* getAllAssets(options): the URLSearchParams it builds (without the _t
\* cache buster).  An optional parameter is appended when its value is truthy,
\* search when search.trim() is, and then trimmed.
GetAllAssets(o) ==
  LET given == {k \in {"search", "companyName", "device", "createdBy"} :
                  IF k = "search" THEN o[k] # <<>> /\ Trim(o[k]) # <<>> ELSE o[k] # ""}
  IN [k \in {"page", "limit", "sortBy", "order"} \cup given |->
        IF k = "sortBy" THEN "createdAt"
        ELSE IF k = "order" THEN "desc"
        ELSE IF k = "search" THEN Trim(o[k])
        ELSE o[k]]

\* fetchAssets(options): the getAllAssets call it makes.  origin, viewSeen and
\* kCompany describe the caller: which handler called (and so what runs after
\* the await), the view-mode its closure held and the company filter its
\* refreshCounts closure holds.
ListReq(page, search, companyName, device, createdBy, origin, vm, kCompany) ==
  [page |-> page, search |-> search,
   companyName |-> companyName, device |-> device, createdBy |-> createdBy,
   showLoading |-> TRUE, origin |-> origin, viewSeen |-> vm,
   kCompany |-> kCompany, log |-> <<>>,
   query |-> GetAllAssets([page |-> page, limit |-> PageLimit, search |-> search,
                           companyName |-> companyName, device |-> device,
                           createdBy |-> createdBy])]

\* Requests awaiting their response; a handler sends one more only while
\* fewer than MaxInFlight are.
InFlight == Len(listReqs) + BagCardinality(countReqs) + Len(mutReqs)
CanSend == InFlight < MaxInFlight

\* A getAssetCounts call is made.
SendCount(c) == countReqs' = countReqs (+) SetToBag({c})

\* State changes of fetchAssets up to its await.
SendList(r) ==
  /\ listReqs' = Append(listReqs, r)
  /\ latestPending' = TRUE
  /\ isLoading' = (IF r.showLoading THEN TRUE ELSE isLoading)
  /\ error' = NoError

RemoveAt(s, i) == [j \in 1..(Len(s) - 1) |-> IF j < i THEN s[j] ELSE s[j + 1]]

\* -------------------------------------------------------------------- Init
\* The state after construction, over a store holding one of `mines` assets of the user.
InitWith(mines) ==
  /\ user \in Users
  /\ phase = "constructed"
  /\ assets = [rows |-> 0, own |-> 0, list |-> <<>>, assetData |-> <<>>]
  /\ pagination = [currentPage |-> 1, totalPages |-> 1, totalItems |-> 0]
  /\ viewMode = "all"
  /\ selectedCompany = ""
  /\ selectedDeviceType = ""
  /\ searchTerm = <<>>
  /\ isLoading = TRUE
  /\ error = NoError
  /\ myAssetCount = 0
  /\ deviceCounts = [total |-> 0, laptops |-> 0, desktops |-> 0, printers |-> 0]
  /\ isModalOpen = FALSE
  /\ editingAsset = NoAsset
  /\ showDeleteConfirm = NoAsset
  /\ timers = {}
  /\ searchDebounceRef = NoAsset
  /\ listReqs = <<>>
  /\ countReqs = EmptyBag
  /\ mutReqs = <<>>
  /\ server \in [mine : mines]
  /\ acts = 0
  /\ latestPending = FALSE
  /\ staleShown = FALSE
  /\ hlog = <<>>
  /\ burst = [terms |-> <<>>, age |-> 0, fetches |-> 0]
  /\ lastWrite = [kind |-> "none", ok |-> TRUE, remote |-> ""]
  /\ authPage = "login"
  /\ authForm = [password |-> <<>>, confirm |-> <<>>]
  /\ authError = ""
  /\ authSuccess = ""
  /\ authBusy = FALSE
  /\ authReqs = 0

Init == InitWith(InitialMine)

\* ------------------------------------------------------------- effects
\* The view-mode effect: the list request it sends, if any.
ViewModeEffectReqs(vm) ==
  IF ~isAdmin
    THEN (IF user.id # ""
            THEN {ListReq(1, searchTerm, selectedCompany, selectedDeviceType,
                          user.id, "effect", vm, selectedCompany)}
            ELSE {})
  ELSE IF vm = "my" /\ user.id # ""
    THEN {ListReq(1, searchTerm, selectedCompany, selectedDeviceType,
                  user.id, "effect", vm, selectedCompany)}
  ELSE IF vm = "all"
    THEN {ListReq(1, searchTerm, selectedCompany, selectedDeviceType,
                  "", "effect", vm, selectedCompany)}
  ELSE {}

\* The my-count effect: getAllAssets({page: 1, limit: 1, createdBy: user?._id}).
MyCountReqs ==
  IF user.id # "" THEN SetToBag({[kind |-> "mine", companyName |-> "", createdBy |-> user.id]})
  ELSE EmptyBag

\* The device-counts effect and refreshCounts: the getAssetCounts call.
DeviceCountReq(companyName) ==
  [kind |-> "device"] @@ GetAssetCounts(companyName, CountsCreatedBy)

\* First render: the my-count effect, the device-counts effect and the
\* view-mode effect run.
Mount ==
  /\ phase = "constructed"
  /\ phase' = "mounted"
  /\ countReqs' = MyCountReqs (+) SetToBag({DeviceCountReq(selectedCompany)})
  /\ LET rs == ViewModeEffectReqs(viewMode) IN
       IF rs = {} THEN UNCHANGED <<listReqs, latestPending, isLoading, error>>
       ELSE SendList(CHOOSE r \in rs : TRUE)
  /\ UNCHANGED <<user, assets, pagination, viewMode, selectedCompany, selectedDeviceType,
                 searchTerm, myAssetCount, deviceCounts, modalVars, timerVars, mutReqs,
                 server, acts, histVars>>
  /\ UNCHANGED authVars

\* Admin clicks "All" or "Mine": setViewMode, then the view-mode effect.
SetViewMode(m) ==
  /\ phase = "mounted" /\ isAdmin /\ acts < MaxUserActions
  /\ m # viewMode
  /\ viewMode' = m
  /\ LET rs == ViewModeEffectReqs(m) IN
       IF rs = {} THEN UNCHANGED <<listReqs, latestPending, isLoading, error>>
       ELSE CanSend /\ SendList(CHOOSE r \in rs : TRUE)
  /\ acts' = acts + 1
  /\ UNCHANGED <<user, phase, assets, pagination, selectedCompany, selectedDeviceType,
                 searchTerm, myAssetCount, deviceCounts, modalVars, timerVars,
                 countReqs, mutReqs, server, histVars>>
  /\ UNCHANGED authVars

\* Click on a device card: onClick={() => setSelectedDeviceType(tab.id)}.
SelectDeviceType(d) ==
  /\ phase = "mounted" /\ acts < MaxUserActions
  /\ d # selectedDeviceType
  /\ selectedDeviceType' = d
  /\ acts' = acts + 1
  /\ UNCHANGED <<user, phase, assets, pagination, viewMode, selectedCompany, searchTerm,
                 isLoading, error, myAssetCount, deviceCounts, modalVars, timerVars,
                 netVars, server, histVars>>
  /\ UNCHANGED authVars

\* Company select / clear button: setSelectedCompany, then the device-counts effect.
SelectCompany(c) ==
  /\ phase = "mounted" /\ acts < MaxUserActions
  /\ c # selectedCompany
  /\ selectedCompany' = c
  /\ CanSend /\ SendCount(DeviceCountReq(c))
  /\ acts' = acts + 1
  /\ UNCHANGED <<user, phase, assets, pagination, viewMode, selectedDeviceType, searchTerm,
                 isLoading, error, myAssetCount, deviceCounts, modalVars, timerVars,
                 listReqs, mutReqs, latestPending, server, histVars>>
  /\ UNCHANGED authVars

\* ------------------------------------------------------ search debounce
TimerKey(term, vm) ==
  [term |-> term, createdBy |-> CreatedByFilter(vm), viewSeen |-> vm,
   companyName |-> selectedCompany, device |-> selectedDeviceType]

\* A clearTimeout that cancels nothing.
ClearTimeoutNothing(ts, ref) == ts

\* clearTimeout(searchDebounceRef.current)
ClearTimeout(ts, ref) == {t \in ts : t.key # ref}

\* A keystroke in the table's search box: handleSearchChange -> handleSearch.
HandleSearch(term) ==
  /\ phase = "mounted" /\ ~isLoading /\ acts < MaxUserActions
  /\ term # searchTerm
  /\ searchTerm' = term
  /\ LET key == TimerKey(term, viewMode) IN
       /\ timers' = ClearTimeout(timers, searchDebounceRef)
                       \cup {[key |-> key, left |-> DebounceMs]}
       /\ searchDebounceRef' = key
  /\ burst' = (IF timers = {} THEN [terms |-> <<term>>, age |-> 0, fetches |-> 0]
                ELSE [burst EXCEPT !.terms = Append(@, term), !.age = 0])
  /\ acts' = acts + 1
  /\ UNCHANGED <<user, phase, assets, pagination, viewMode, selectedCompany,
                 selectedDeviceType, isLoading, error, myAssetCount, deviceCounts,
                 modalVars, netVars, server, staleShown, hlog, lastWrite>>
  /\ UNCHANGED authVars

\* Time passes while a debounce timer is pending and not yet due.
Tick ==
  /\ timers # {}
  /\ \A t \in timers : t.left > 0
  /\ timers' = {[t EXCEPT !.left = @ - Quantum] : t \in timers}
  /\ burst' = [burst EXCEPT !.age = @ + Quantum]
  /\ UNCHANGED <<user, phase, uiVars, modalVars, searchDebounceRef, netVars, server,
                 acts, staleShown, hlog, lastWrite>>
  /\ UNCHANGED authVars

\* The debounce callback runs: fetchAssets({page: 1, search: term, createdBy}).
TimerFire(t) ==
  /\ t \in timers /\ t.left = 0
  /\ CanSend
  /\ timers' = timers \ {t}
  /\ burst' = [burst EXCEPT !.fetches = @ + 1]
  /\ SendList(ListReq(1, t.key.term, t.key.companyName, t.key.device, t.key.createdBy,
                      "search", t.key.viewSeen, t.key.companyName))
  /\ UNCHANGED <<user, phase, assets, pagination, viewMode, selectedCompany,
                 selectedDeviceType, searchTerm, myAssetCount, deviceCounts, modalVars,
                 searchDebounceRef, countReqs, mutReqs, server, acts, staleShown, hlog, lastWrite>>
  /\ UNCHANGED authVars

\* A range test that lets every page number through.
PageInRangeAlways(n) == TRUE

\* page >= 1 && page <= totalPages   (goToPage)
PageInRange(n) == n >= 1 /\ n <= pagination.totalPages

\* Page buttons of the table: goToPage(n) -> handlePageChange(n).
GoToPage(n) ==
  /\ phase = "mounted" /\ ~isLoading /\ acts < MaxUserActions
  /\ PageInRange(n)
  /\ CanSend
  /\ SendList(ListReq(n, searchTerm, selectedCompany, selectedDeviceType,
                      CreatedByFilter(viewMode), "page", viewMode, selectedCompany))
  /\ acts' = acts + 1
  /\ UNCHANGED <<user, phase, assets, pagination, viewMode, selectedCompany,
                 selectedDeviceType, searchTerm, myAssetCount, deviceCounts, modalVars,
                 timerVars, countReqs, mutReqs, server, histVars>>
  /\ UNCHANGED authVars

\* The refresh button (disabled while isLoading), up to its first await.
Refresh ==
  /\ phase = "mounted" /\ ~isLoading /\ acts < MaxUserActions
  /\ CanSend
  /\ searchTerm' = <<>>
  /\ SendList(ListReq(1, <<>>, selectedCompany, selectedDeviceType,
                      RefreshCreatedBy(viewMode), "refresh", viewMode, selectedCompany))
  /\ acts' = acts + 1
  /\ UNCHANGED <<user, phase, assets, pagination, viewMode, selectedCompany,
                 selectedDeviceType, myAssetCount, deviceCounts, modalVars, timerVars,
                 countReqs, mutReqs, server, histVars>>
  /\ UNCHANGED authVars

\* ------------------------------------------------------------- modals
OpenAddModal ==
  /\ phase = "mounted" /\ acts < MaxUserActions
  /\ editingAsset' = NoAsset
  /\ isModalOpen' = TRUE
  /\ acts' = acts + 1
  /\ UNCHANGED <<user, phase, uiVars, showDeleteConfirm, timerVars, netVars, server, histVars>>
  /\ UNCHANGED authVars

\* showActionColumn and canEditAsset of the table, for a row the user created.
ShowActionColumn == IF isAdmin THEN viewMode = "my" ELSE TRUE
RowActionsOffered == ~isLoading /\ ShowActionColumn /\ assets.own > 0 /\ user.id # ""

OpenEditModal ==
  /\ phase = "mounted" /\ acts < MaxUserActions
  /\ RowActionsOffered
  /\ editingAsset' = AssetId
  /\ isModalOpen' = TRUE
  /\ acts' = acts + 1
  /\ UNCHANGED <<user, phase, uiVars, showDeleteConfirm, timerVars, netVars, server, histVars>>
  /\ UNCHANGED authVars

OnDelete ==
  /\ phase = "mounted" /\ acts < MaxUserActions
  /\ RowActionsOffered
  /\ showDeleteConfirm' = AssetId
  /\ acts' = acts + 1
  /\ UNCHANGED <<user, phase, uiVars, isModalOpen, editingAsset, timerVars, netVars,
                 server, histVars>>
  /\ UNCHANGED authVars

\* Cancel button or backdrop of the delete confirmation.
CancelDelete ==
  /\ phase = "mounted" /\ acts < MaxUserActions
  /\ showDeleteConfirm # NoAsset
  /\ showDeleteConfirm' = NoAsset
  /\ acts' = acts + 1
  /\ UNCHANGED <<user, phase, uiVars, isModalOpen, editingAsset, timerVars, netVars,
                 server, histVars>>
  /\ UNCHANGED authVars

\* ---------------------------------------------------- creation payload
\* Strings of the form are tuples of characters; objects are functions from
\* keys to strings.
Undefined == <<"undefined">>
Placeholder == <<"W","i","l","l"," ","b","e"," ","g","e","n","e","r","a","t","e","d",
                 " ","o","n"," ","s","a","v","e">>
UserIdString == IF user.id = "" THEN Undefined ELSE <<"u", "1">>

Get(obj, k) == IF k \in DOMAIN obj THEN obj[k] ELSE Undefined
Falsy(v) == v = Undefined \/ v = <<>>
Delete(obj, k) == [x \in DOMAIN obj \ {k} |-> obj[x]]

\* A strip that forgets the trim() test.
StripSerialNoTrim(assetData) ==
  IF \/ Falsy(Get(assetData, "serialNumber"))
     \/ Get(assetData, "serialNumber") = Placeholder
    THEN Delete(assetData, "serialNumber")
    ELSE assetData

\* handleAddAsset: {...formData, createdBy: user?._id} minus an empty or
\* placeholder serialNumber.
StripSerial(assetData) ==
  IF \/ Falsy(Get(assetData, "serialNumber"))
     \/ Trim(Get(assetData, "serialNumber")) = <<>>
     \/ Get(assetData, "serialNumber") = Placeholder
    THEN Delete(assetData, "serialNumber")
    ELSE assetData

AssetData(formData) ==
  StripSerial([k \in DOMAIN formData \cup {"createdBy"} |->
                 IF k = "createdBy" THEN UserIdString ELSE formData[k]])

\* createAsset: const { serialNumber, ...cleanData } = assetData;
\*              dataToSend = serialNumber ? assetData : cleanData
DataToSend(assetData) ==
  IF ~Falsy(Get(assetData, "serialNumber")) THEN assetData
  ELSE Delete(assetData, "serialNumber")

\* JSON.stringify drops the keys whose value is undefined.
JsonBody(obj) == [k \in {x \in DOMAIN obj : obj[x] # Undefined} |-> obj[k]]

CreatePayload(formData) == JsonBody(DataToSend(AssetData(formData)))

\* ------------------------------------------------------------ mutations
\* What a mutation handler's closure holds when it is invoked.
Closure ==
  [viewSeen |-> viewMode, page |-> pagination.currentPage, search |-> searchTerm,
   companyName |-> selectedCompany, device |-> selectedDeviceType]

\* handleAddAsset up to `await createAsset(assetData)`.
HandleAddAsset(formData) ==
  /\ phase = "mounted" /\ acts < MaxUserActions
  /\ isModalOpen /\ editingAsset = NoAsset
  /\ CanSend
  /\ error' = NoError
  /\ mutReqs' = Append(mutReqs, [kind |-> "create", id |-> NoAsset, form |-> formData,
                                  body |-> CreatePayload(formData), k |-> Closure,
                                  log |-> <<"createAsset">>])
  /\ acts' = acts + 1
  /\ UNCHANGED <<user, phase, assets, pagination, viewMode, selectedCompany,
                 selectedDeviceType, searchTerm, isLoading, myAssetCount, deviceCounts,
                 modalVars, timerVars, listReqs, countReqs, latestPending, server, histVars>>
  /\ UNCHANGED authVars

\* handleEditAsset up to `await updateAsset(assetId, formData)`.
HandleEditAsset(formData) ==
  /\ phase = "mounted" /\ acts < MaxUserActions
  /\ isModalOpen /\ editingAsset # NoAsset
  /\ CanSend
  /\ error' = NoError
  /\ mutReqs' = Append(mutReqs, [kind |-> "update", id |-> editingAsset, form |-> formData,
                                  body |-> formData, k |-> Closure, log |-> <<>>])
  /\ acts' = acts + 1
  /\ UNCHANGED <<user, phase, assets, pagination, viewMode, selectedCompany,
                 selectedDeviceType, searchTerm, isLoading, myAssetCount, deviceCounts,
                 modalVars, timerVars, listReqs, countReqs, latestPending, server, histVars>>
  /\ UNCHANGED authVars

\* handleDeleteAsset up to `await deleteAsset(assetId)`.
HandleDeleteAsset ==
  /\ phase = "mounted" /\ acts < MaxUserActions
  /\ showDeleteConfirm # NoAsset
  /\ CanSend
  /\ error' = NoError
  /\ mutReqs' = Append(mutReqs, [kind |-> "delete", id |-> showDeleteConfirm,
                                  form |-> <<>>, body |-> <<>>, k |-> Closure,
                                  log |-> <<>>])
  /\ acts' = acts + 1
  /\ UNCHANGED <<user, phase, assets, pagination, viewMode, selectedCompany,
                 selectedDeviceType, searchTerm, isLoading, myAssetCount, deviceCounts,
                 modalVars, timerVars, listReqs, countReqs, latestPending, server, histVars>>
  /\ UNCHANGED authVars

\* A refetch that always goes back to the first page.
RefetchFirstPage(m) == 1

\* The refetch of a mutation handler after its write succeeded:
\* create asks for page 1, update and delete for pagination.currentPage.
RefetchPage(m) == IF m.kind = "create" THEN 1 ELSE m.k.page

Refetch(m) ==
  [ListReq(RefetchPage(m), m.k.search, m.k.companyName, m.k.device,
           CreatedByFilter(m.k.viewSeen), m.kind, m.k.viewSeen, m.k.companyName)
   EXCEPT !.log = IF m.kind = "create" THEN Append(m.log, "fetchAssets") ELSE m.log]

\* The store after a write.
ServerAfter(m) ==
  IF m.kind = "create" THEN [server EXCEPT !.mine = @ + 1]
  ELSE IF m.kind = "delete" THEN [server EXCEPT !.mine = @ - 1]
  ELSE server

\* The write succeeds: the handler goes on to its refetch.
MutationOk(i) ==
  /\ i \in 1..Len(mutReqs)
  /\ LET m == mutReqs[i] IN
       /\ m.kind = "delete" => server.mine > 0
       /\ server' = ServerAfter(m)
       /\ mutReqs' = RemoveAt(mutReqs, i)
       /\ SendList(Refetch(m))
       /\ lastWrite' = [kind |-> m.kind, ok |-> TRUE, remote |-> ""]
  /\ UNCHANGED <<user, phase, assets, pagination, viewMode, selectedCompany,
                 selectedDeviceType, searchTerm, myAssetCount, deviceCounts, modalVars,
                 timerVars, countReqs, acts, staleShown, hlog, burst>>
  /\ UNCHANGED authVars

\* The message a failed write leaves in the error state; remote is the
\* message of the response ("" when it has none).
MutationErrorMessage(kind, remote) ==
  IF kind = "create" THEN CreateFailedMsg
  ELSE IF kind = "update" THEN UpdateFailedMsg
  ELSE DeleteFailedMsg

\* A catch block that counts the asset although its creation failed.
MutationFailedCounting(i, remote) ==
  /\ i \in 1..Len(mutReqs)
  /\ LET m == mutReqs[i] IN
       /\ mutReqs' = RemoveAt(mutReqs, i)
       /\ error' = MutationErrorMessage(m.kind, remote)
       /\ lastWrite' = [kind |-> m.kind, ok |-> FALSE, remote |-> remote]
       /\ myAssetCount' = (IF m.kind = "create" THEN myAssetCount + 1 ELSE myAssetCount)
  /\ UNCHANGED <<user, phase, assets, pagination, viewMode, selectedCompany,
                 selectedDeviceType, searchTerm, isLoading, deviceCounts,
                 modalVars, timerVars, listReqs, countReqs, latestPending, server, acts,
                 staleShown, hlog, burst>>
  /\ UNCHANGED authVars

\* The write fails: the catch block of the handler.
MutationFailed(i, remote) ==
  /\ i \in 1..Len(mutReqs)
  /\ LET m == mutReqs[i] IN
       /\ mutReqs' = RemoveAt(mutReqs, i)
       /\ error' = MutationErrorMessage(m.kind, remote)
       /\ lastWrite' = [kind |-> m.kind, ok |-> FALSE, remote |-> remote]
  /\ UNCHANGED <<user, phase, assets, pagination, viewMode, selectedCompany,
                 selectedDeviceType, searchTerm, isLoading, myAssetCount, deviceCounts,
                 modalVars, timerVars, listReqs, countReqs, latestPending, server, acts,
                 staleShown, hlog, burst>>
  /\ UNCHANGED authVars

\* ------------------------------------------------------------ responses
\* A delete continuation that decrements without the floor.
CountAfterNoFloor(kind, n) ==
  IF kind = "create" THEN n + 1
  ELSE IF kind = "delete" THEN n - 1
  ELSE n

\* myAssetCount after the continuation of the handler that awaited fetchAssets.
CountAfter(kind, n) ==
  IF kind = "create" THEN n + 1
  ELSE IF kind = "delete" THEN Max(0, n - 1)
  ELSE n

\* new Date(a.createdAt || 0).getTime(): a row without createdAt dates from the epoch.
GetTime(a) == IF "createdAt" \in DOMAIN a THEN a.createdAt ELSE 0

\* Callers of fetchAssets that do nothing after it.
PlainOrigins == {"effect", "page", "search"}

\* The two steps in the other order.
CreateTailCountsFirst == <<"refreshCounts", "setMyAssetCount">>

\* The steps handleAddAsset takes after `await fetchAssets(...)`, in program order.
CreateTail == <<"setMyAssetCount", "refreshCounts">>

\* A catch block that keeps the rows loaded before.
KeepAssets == assets

\* setAssets([]) in the catch block of fetchAssets
EmptyAssets == [rows |-> 0, own |-> 0, list |-> <<>>, assetData |-> <<>>]

\* A comparator that puts the oldest first.
CompareOldestFirst(a, b) == GetTime(a) - GetTime(b)

\* (a, b) => dateB - dateA
Compare(a, b) == GetTime(b) - GetTime(a)

\* Array.prototype.sort is stable: x goes behind every row that does not
\* compare after it.
RECURSIVE Insert(_, _)
Insert(x, s) ==
  IF s = <<>> THEN <<x>>
  ELSE IF Compare(Head(s), x) <= 0 THEN <<Head(s)>> \o Insert(x, Tail(s))
  ELSE <<x>> \o s

\* sortAssetsByCreatedAt(assets): [...assets].sort(comparator)
RECURSIVE SortAssetsByCreatedAt(_)
SortAssetsByCreatedAt(s) ==
  IF s = <<>> THEN <<>>
  ELSE Insert(s[Len(s)], SortAssetsByCreatedAt(SubSeq(s, 1, Len(s) - 1)))

\* A list request settles with the rows `data` spelled out in its response:
\* the rest of fetchAssets, then the rest of the handler that awaited it
\* (create, update, delete, refresh).
ListResponseData(i, ok, data) ==
  /\ i \in 1..Len(listReqs)
  /\ LET r == listReqs[i]
         resp == ServerPage(r)
         fetched == IF ok /\ r.createdBy # "" THEN resp.pagination.totalItems
                    ELSE myAssetCount
     IN
       /\ listReqs' = RemoveAt(listReqs, i)
       /\ IF ok
            THEN /\ pagination' = resp.pagination
                 /\ assets' = [rows |-> resp.assets.rows, own |-> resp.assets.own,
                                list |-> SortAssetsByCreatedAt(data), assetData |-> data]
                 /\ error' = error
            ELSE /\ error' = ListFailedMsg
                 /\ assets' = EmptyAssets
                 /\ pagination' = pagination
       /\ staleShown' = ~(latestPending /\ i = Len(listReqs))
       /\ latestPending' = (latestPending /\ i # Len(listReqs))
       /\ isLoading' = (IF r.showLoading THEN FALSE ELSE isLoading)
       /\ myAssetCount' = CountAfter(r.origin, fetched)
       /\ isModalOpen' = (IF r.origin \in {"create", "update"} THEN FALSE ELSE isModalOpen)
       /\ editingAsset' = (IF r.origin = "update" THEN NoAsset ELSE editingAsset)
       /\ showDeleteConfirm' = (IF r.origin = "delete" THEN NoAsset ELSE showDeleteConfirm)
       /\ IF r.origin \in PlainOrigins THEN countReqs' = countReqs
          ELSE SendCount(DeviceCountReq(r.kCompany))
       /\ hlog' = (IF r.origin = "create" THEN r.log \o CreateTail ELSE hlog)
  /\ UNCHANGED <<user, phase, viewMode, selectedCompany, selectedDeviceType, searchTerm,
                 deviceCounts, timerVars, mutReqs, server, acts, burst, lastWrite>>
  /\ UNCHANGED authVars

\* A list request settles; the dashboard model keeps rows as counts only.
ListResponse(i, ok) == ListResponseData(i, ok, <<>>)

\* What getAssetCounts returns: the four totals, or zeros when a fetch rejects.
Counts(c, ok) ==
  IF ok THEN [total |-> ServerCount(c.companyName, "", c.createdBy),
              laptops |-> ServerCount(c.companyName, "Laptop", c.createdBy),
              desktops |-> ServerCount(c.companyName, "Desktop", c.createdBy),
              printers |-> ServerCount(c.companyName, "Printer", c.createdBy)]
  ELSE [total |-> 0, laptops |-> 0, desktops |-> 0, printers |-> 0]

\* A counts request settles: setDeviceCounts(counts), or, for the my-count
\* request of the mount effect, setMyAssetCount(totalItems) on success.
CountResponse(c, ok) ==
  /\ BagIn(c, countReqs)
  /\ countReqs' = countReqs (-) SetToBag({c})
  /\   /\ IF c.kind = "mine"
            THEN /\ myAssetCount' = (IF ok THEN ServerCount("", "", c.createdBy)
                                     ELSE myAssetCount)
                 /\ deviceCounts' = deviceCounts
            ELSE /\ deviceCounts' = Counts(c, ok)
                 /\ myAssetCount' = myAssetCount
  /\ UNCHANGED <<user, phase, assets, pagination, viewMode, selectedCompany,
                 selectedDeviceType, searchTerm, isLoading, error, modalVars, timerVars,
                 listReqs, mutReqs, latestPending, server, acts, histVars>>
  /\ UNCHANGED authVars

\* -------------------------------------------------------------------- Next
\* Forms submitted in the dashboard model: a blank serial number and a given one.
BlankForm == [serialNumber |-> <<>>, brand |-> <<"D">>]
SerialForm == [serialNumber |-> <<"x">>, brand |-> <<"D">>]

Next ==
  \/ Mount
  \/ \E m \in ViewModes : SetViewMode(m)
  \/ \E d \in DeviceTypes : SelectDeviceType(d)
  \/ \E c \in Companies : SelectCompany(c)
  \/ \E term \in Terms \cup {<<>>} : HandleSearch(term)
  \/ Tick
  \/ \E t \in timers : TimerFire(t)
  \/ \E n \in 1..pagination.totalPages : GoToPage(n)
  \/ Refresh
  \/ OpenAddModal
  \/ OpenEditModal
  \/ OnDelete
  \/ CancelDelete
  \/ HandleAddAsset(BlankForm)
  \/ HandleEditAsset(SerialForm)
  \/ HandleDeleteAsset
  \/ \E i \in 1..Len(mutReqs) : MutationOk(i)
  \/ \E i \in 1..Len(mutReqs), remote \in RemoteMessages : MutationFailed(i, remote)
  \/ \E i \in 1..Len(listReqs), ok \in BOOLEAN : ListResponse(i, ok)
  \/ \E c \in BagToSet(countReqs), ok \in BOOLEAN : CountResponse(c, ok)

Spec == Init /\ [][Next]_vars

\* ------------------------------------------------- creation payloads
MaxLen == 2

Chars == {" ", "x"}
Strings(n) == UNION {[1..k -> Chars] : k \in 0..n}
Missing == <<"missing">>
SerialInputs == Strings(MaxLen) \cup {Missing, Undefined, Placeholder, <<" ">> \o Placeholder}
CreatedByInputs == {Missing, <<"u", "2">>}

\* The object the form modal hands to onSubmit.
FormOf(sn, cb) ==
  [k \in {"brand"} \cup (IF sn = Missing THEN {} ELSE {"serialNumber"})
                   \cup (IF cb = Missing THEN {} ELSE {"createdBy"}) |->
     IF k = "brand" THEN <<"D">> ELSE IF k = "serialNumber" THEN sn ELSE cb]

Forms == {FormOf(sn, cb) : sn \in SerialInputs, cb \in CreatedByInputs}

\* The dashboard loads, the add form is opened and submitted with every input
\* of Forms.
NextPayload ==
  \/ Mount
  \/ \E i \in 1..Len(listReqs) : ListResponse(i, TRUE)
  \/ \E c \in BagToSet(countReqs) : CountResponse(c, TRUE)
  \/ OpenAddModal
  \/ \E f \in Forms : HandleAddAsset(f)

SpecPayload == Init /\ [][NextPayload]_vars

\* ------------------------------------------------------------- sorting
MaxRows == 3
Stamps == {1, 2}     \* createdAt values, in ms after the epoch

\* Responses of up to MaxRows rows, the k-th with id k, each with a createdAt
\* of Stamps or without one, in any order of dates.
RowsOf(k) == {[id |-> k]} \cup {[id |-> k, createdAt |-> t] : t \in Stamps}
RowSeqs ==
  UNION {{s \in [1..n -> UNION {RowsOf(k) : k \in 1..n}] : \A k \in 1..n : s[k].id = k}
           : n \in 0..MaxRows}

NextSort ==
  \/ Mount
  \/ \E i \in 1..Len(listReqs), data \in RowSeqs : ListResponseData(i, TRUE, data)
  \/ \E i \in 1..Len(listReqs) : ListResponse(i, FALSE)
  \/ \E c \in BagToSet(countReqs) : CountResponse(c, TRUE)
  \/ \E n \in 1..pagination.totalPages : GoToPage(n)

SpecSort == Init /\ [][NextSort]_vars

\* ----------------------------------------------------- client-side filters
MaxFilterRows == 2
RowCompanies == {"TGL", "ACME"}
RowDevices == {"Laptop", "Desktop"}

\* a.companyName, a.device: undefined when the row has no such property.
Field(a, k) == IF k \in DOMAIN a THEN a[k] ELSE "undefined"

\* A filter that applies the company filter only.
GetFilteredAssetsCompanyOnly ==
  IF selectedCompany # ""
    THEN SelectSeq(assets.list, LAMBDA a : Field(a, "companyName") = selectedCompany)
  ELSE assets.list

\* getFilteredAssets(): the loaded rows, filtered by the company when one is
\* selected, then by the device type when one is selected.
GetFilteredAssets ==
  LET byCompany == IF selectedCompany # ""
                     THEN SelectSeq(assets.list,
                                    LAMBDA a : Field(a, "companyName") = selectedCompany)
                   ELSE assets.list
  IN IF selectedDeviceType # ""
       THEN SelectSeq(byCompany, LAMBDA a : Field(a, "device") = selectedDeviceType)
     ELSE byCompany

\* const displayedAssets = getFilteredAssets()
displayedAssets == GetFilteredAssets

\* Responses of up to MaxFilterRows rows, the k-th with id k, of any company
\* and device type: the server answers the request it was sent, which may
\* predate the filters now selected.
FilterRowsOf(k) == {[id |-> k, companyName |-> c, device |-> d] : c \in RowCompanies, d \in RowDevices}
FilterRowSeqs ==
  UNION {{s \in [1..n -> UNION {FilterRowsOf(k) : k \in 1..n}] : \A k \in 1..n : s[k].id = k}
           : n \in 0..MaxFilterRows}

NextFilter ==
  \/ Mount
  \/ \E d \in DeviceTypes : SelectDeviceType(d)
  \/ \E c \in Companies : SelectCompany(c)
  \/ \E i \in 1..Len(listReqs), data \in FilterRowSeqs : ListResponseData(i, TRUE, data)
  \/ \E i \in 1..Len(listReqs) : ListResponse(i, FALSE)
  \/ \E c \in BagToSet(countReqs) : CountResponse(c, TRUE)
  \/ \E n \in 1..pagination.totalPages : GoToPage(n)

SpecFilter == Init /\ [][NextFilter]_vars

\* ----------------------------------------------------------- row actions
MaxActionRows == 2

\* The assets a page may show: a1 was created by user u1, a2 by user u2.
OwnerOf(id) == IF id = AssetId THEN "u1" ELSE "u2"

\* asset.createdBy as the backend sends it: absent, a plain id, or a populated
\* user object with an _id.
CreatorForms(id) ==
  {[type |-> "string", value |-> OwnerOf(id)], [type |-> "object", _id |-> OwnerOf(id)]}

ActionRows ==
  UNION {{[id |-> id]} \cup {[id |-> id, createdBy |-> c] : c \in CreatorForms(id)}
           : id \in {AssetId, "a2"}}

ActionRowSeqs == UNION {[1..n -> ActionRows] : n \in 0..MaxActionRows}

\* An ownership test that accepts every row that names a creator.
CanEditAssetAny(asset, currentUser) == "createdBy" \in DOMAIN asset

\* canEditAsset(asset) of the table, currentUser being user?._id.
CanEditAsset(asset, currentUser) ==
  IF "createdBy" \notin DOMAIN asset \/ currentUser = "" THEN FALSE
  ELSE IF asset.createdBy.type = "object" THEN asset.createdBy._id = currentUser
  ELSE asset.createdBy.value = currentUser

\* The action cell of the j-th displayed row shows the edit and delete buttons.
ActionsOffered(j) ==
  /\ phase = "mounted" /\ ~isLoading
  /\ j \in 1..Len(displayedAssets)
  /\ ShowActionColumn
  /\ CanEditAsset(displayedAssets[j], user.id)

\* Edit button of the j-th row: onEdit(asset) -> openEditModal(asset).
OnEditRow(j) ==
  /\ acts < MaxUserActions
  /\ ActionsOffered(j)
  /\ editingAsset' = displayedAssets[j].id
  /\ isModalOpen' = TRUE
  /\ acts' = acts + 1
  /\ UNCHANGED <<user, phase, uiVars, showDeleteConfirm, timerVars, netVars, server, histVars>>
  /\ UNCHANGED authVars

\* Delete button of the j-th row: onDelete(asset) -> setShowDeleteConfirm(asset._id || asset.id).
OnDeleteRow(j) ==
  /\ acts < MaxUserActions
  /\ ActionsOffered(j)
  /\ showDeleteConfirm' = displayedAssets[j].id
  /\ acts' = acts + 1
  /\ UNCHANGED <<user, phase, uiVars, isModalOpen, editingAsset, timerVars, netVars,
                 server, histVars>>
  /\ UNCHANGED authVars

NextActions ==
  \/ Mount
  \/ \E m \in ViewModes : SetViewMode(m)
  \/ \E i \in 1..Len(listReqs), data \in ActionRowSeqs : ListResponseData(i, TRUE, data)
  \/ \E c \in BagToSet(countReqs) : CountResponse(c, TRUE)
  \/ \E j \in 1..MaxActionRows : OnEditRow(j)
  \/ \E j \in 1..MaxActionRows : OnDeleteRow(j)
  \/ HandleEditAsset(SerialForm)
  \/ HandleDeleteAsset
  \/ \E i \in 1..Len(mutReqs) : MutationOk(i)

SpecActions == Init /\ [][NextActions]_vars

\* ------------------------------------------------------------- progress
\* The dashboard with its fetches, under the assumption that the component
\* mounts and that every request sent is eventually answered.
NextLive ==
  \/ Mount
  \/ \E m \in ViewModes : SetViewMode(m)
  \/ \E n \in 1..pagination.totalPages : GoToPage(n)
  \/ Refresh
  \/ \E i \in 1..Len(listReqs), ok \in BOOLEAN : ListResponse(i, ok)
  \/ \E c \in BagToSet(countReqs), ok \in BOOLEAN : CountResponse(c, ok)

RequestsSettle ==
  /\ WF_vars(Mount)
  /\ WF_vars(\E i \in 1..Len(listReqs), ok \in BOOLEAN : ListResponse(i, ok))
  /\ WF_vars(\E c \in BagToSet(countReqs), ok \in BOOLEAN : CountResponse(c, ok))

SpecLive == Init /\ [][NextLive]_vars /\ RequestsSettle

\* ---------------------------------------------------------- page numbers
MaxPages == 8
MaxVisiblePages == 5     \* const maxVisiblePages = 5
Ellipsis == 0            \* the "..." entry of the page list

\* Stores in which the user owns enough assets for 1..MaxPages pages.
PagedMine == {PageLimit * k + 1 : k \in 0..(MaxPages - 1)}

\* A page list whose middle window starts at the current page.
GetPageNumbersShifted ==
  LET currentPage == pagination.currentPage
      totalPages == pagination.totalPages
  IN IF totalPages <= MaxVisiblePages THEN [i \in 1..totalPages |-> i]
     ELSE IF currentPage <= 3 THEN [i \in 1..4 |-> i] \o <<Ellipsis, totalPages>>
     ELSE IF currentPage >= totalPages - 2
       THEN <<1, Ellipsis>> \o [i \in 1..4 |-> totalPages - 4 + i]
     ELSE <<1, Ellipsis>> \o [i \in 1..3 |-> currentPage - 1 + i]
            \o <<Ellipsis, totalPages>>

\* getPageNumbers() of the table, over the pagination block of the state.
GetPageNumbers ==
  LET currentPage == pagination.currentPage
      totalPages == pagination.totalPages
  IN IF totalPages <= MaxVisiblePages THEN [i \in 1..totalPages |-> i]
     ELSE IF currentPage <= 3 THEN [i \in 1..4 |-> i] \o <<Ellipsis, totalPages>>
     ELSE IF currentPage >= totalPages - 2
       THEN <<1, Ellipsis>> \o [i \in 1..4 |-> totalPages - 4 + i]
     ELSE <<1, Ellipsis>> \o [i \in 1..3 |-> currentPage - 2 + i]
            \o <<Ellipsis, totalPages>>

NextPages ==
  \/ Mount
  \/ \E n \in 1..pagination.totalPages : GoToPage(n)
  \/ \E i \in 1..Len(listReqs) : ListResponse(i, TRUE)
  \/ \E c \in BagToSet(countReqs) : CountResponse(c, TRUE)

InitPages == InitWith(PagedMine)

SpecPages == InitPages /\ [][NextPages]_vars

\* -------------------------------------------------------------- paging
\* goToPage(n) for any n: outside 1..totalPages the handler does nothing.
GoToPageAny(n) ==
  \/ GoToPage(n)
  \/ /\ phase = "mounted" /\ ~isLoading /\ acts < MaxUserActions
     /\ ~PageInRange(n)
     /\ acts' = acts + 1
     /\ UNCHANGED <<user, phase, uiVars, modalVars, timerVars, netVars, server, histVars>>
     /\ UNCHANGED authVars

\* Page numbers goToPage is called with: the pages and one below, one above.
PageInputs == 0..(pagination.totalPages + 1)

NextPaging ==
  \/ Mount
  \/ \E m \in ViewModes : SetViewMode(m)
  \/ \E d \in DeviceTypes : SelectDeviceType(d)
  \/ \E c \in Companies : SelectCompany(c)
  \/ \E term \in Terms \cup {<<>>} : HandleSearch(term)
  \/ Tick
  \/ \E t \in timers : TimerFire(t)
  \/ \E n \in 1..pagination.totalPages : GoToPageAny(n)
  \/ \E n \in PageInputs \ (1..pagination.totalPages) : GoToPageAny(n)
  \/ \E i \in 1..Len(listReqs), ok \in BOOLEAN : ListResponse(i, ok)
  \/ \E c \in BagToSet(countReqs) : CountResponse(c, TRUE)

SpecPaging == Init /\ [][NextPaging]_vars

\* ------------------------------------------------------------ teardown
\* A teardown that leaves the debounce timer armed.
UnmountNoCleanup ==
  /\ phase = "mounted"
  /\ phase' = "unmounted"
  /\ UNCHANGED <<user, uiVars, modalVars, timerVars, netVars, server, acts, histVars>>
  /\ UNCHANGED authVars

\* The dashboard is unmounted: the cleanup of the debounce effect runs,
\* if (searchDebounceRef.current) clearTimeout(searchDebounceRef.current).
\* While the ref is still null no timer has been armed and nothing is cleared.
\* Requests in flight still settle afterwards.
Unmount ==
  /\ phase = "mounted"
  /\ phase' = "unmounted"
  /\ timers' = ClearTimeout(timers, searchDebounceRef)
  /\ UNCHANGED <<user, uiVars, modalVars, searchDebounceRef, netVars, server, acts, histVars>>
  /\ UNCHANGED authVars

NextTeardown ==
  \/ Mount
  \/ \E m \in ViewModes : SetViewMode(m)
  \/ \E term \in Terms \cup {<<>>} : HandleSearch(term)
  \/ Tick
  \/ \E t \in timers : TimerFire(t)
  \/ \E n \in 1..pagination.totalPages : GoToPage(n)
  \/ Refresh
  \/ \E i \in 1..Len(listReqs), ok \in BOOLEAN : ListResponse(i, ok)
  \/ \E c \in BagToSet(countReqs) : CountResponse(c, TRUE)
  \/ Unmount

SpecTeardown == Init /\ [][NextTeardown]_vars

\* ------------------------------------------------------- small stores
\* Stores in which the user has no asset, or a single one.
SmallMine == {0, 1}

InitSmall == InitWith(SmallMine)

SpecSmall == InitSmall /\ [][Next]_vars

\* ------------------------------------------------------- list queries
\* Search terms with blanks, typed once into an empty search box.
QueryTerms == Strings(MaxLen) \ {<<>>}

NextQuery ==
  \/ Mount
  \/ \E m \in ViewModes : SetViewMode(m)
  \/ \E d \in DeviceTypes : SelectDeviceType(d)
  \/ \E c \in Companies : SelectCompany(c)
  \/ \E term \in QueryTerms : searchTerm = <<>> /\ timers = {} /\ HandleSearch(term)
  \/ Tick
  \/ \E t \in timers : TimerFire(t)
  \/ \E n \in 1..pagination.totalPages : GoToPage(n)
  \/ \E i \in 1..Len(listReqs) : ListResponse(i, TRUE)
  \/ \E c \in BagToSet(countReqs) : CountResponse(c, TRUE)

SpecQuery == Init /\ [][NextQuery]_vars

\* ------------------------------------------------------------ auth pages
\* Login, Signup and ResetPassword: one form each, with the same shape of
\* handleSubmit.  Passwords are tuples of characters.
MaxPwLen == 4

MismatchMsg == "Passwords do not match"
TooShortMsg == "Password must be at least 3 characters long"
MinPasswordLength == 3
AuthPages == {"login", "signup", "reset"}
PwInputs == UNION {[1..k -> {"a"}] : k \in 0..MaxPwLen}
AuthRemoteMessages == {"", "Invalid credentials"}

\* <Link> to another auth page once the form's request has settled: the
\* page's component is constructed afresh.
Navigate(p) ==
  /\ authPage \in AuthPages /\ p \in AuthPages /\ p # authPage
  /\ authReqs = 0
  /\ authPage' = p
  /\ authForm' = [password |-> <<>>, confirm |-> <<>>]
  /\ authError' = ""
  /\ authSuccess' = ""
  /\ authBusy' = FALSE
  /\ UNCHANGED <<authReqs, dashVars>>

\* handleChange / setPassword: typing into the password or the confirmation field.
HandleChange(field, value) ==
  /\ authPage \in AuthPages
  /\ field = "confirm" => authPage # "login"
  /\ authForm[field] # value
  /\ authForm' = [authForm EXCEPT ![field] = value]
  /\ UNCHANGED <<authPage, authError, authSuccess, authBusy, authReqs, dashVars>>

\* A submit control that is never disabled.
SubmitNeverDisabled == FALSE

\* disabled={isLoading} of the submit button.
SubmitDisabled == authBusy

\* The `required` attribute of the inputs: the browser submits no empty field.
RequiredFilled ==
  /\ authForm.password # <<>>
  /\ authPage # "login" => authForm.confirm # <<>>

\* A validation that tests nothing.
ValidationErrorNone == ""

\* The validation of Signup / ResetPassword handleSubmit: the message it
\* rejects the form with, "" when it lets the form through.
ValidationError ==
  IF authPage = "login" THEN ""
  ELSE IF authForm.password # authForm.confirm THEN MismatchMsg
  ELSE IF Len(authForm.password) < MinPasswordLength THEN TooShortMsg
  ELSE ""

\* handleSubmit up to its return or its await.
HandleSubmit ==
  /\ authPage \in AuthPages
  /\ ~SubmitDisabled /\ RequiredFilled
  /\ authSuccess' = (IF authPage = "login" THEN authSuccess ELSE "")
  /\ IF ValidationError # ""
       THEN /\ authError' = ValidationError
            /\ UNCHANGED <<authBusy, authReqs>>
       ELSE /\ authReqs < MaxInFlight
            /\ authError' = ""
            /\ authBusy' = TRUE
            /\ authReqs' = authReqs + 1
  /\ UNCHANGED <<authPage, authForm, dashVars>>

\* What the service throws, then what the page stores:
\* throw new Error(data.message || "Login failed"); setError(err.message || "...").
AuthServiceFallback ==
  IF authPage = "login" THEN "Login failed"
  ELSE IF authPage = "signup" THEN "Signup failed"
  ELSE "Password reset failed"

AuthErrorMessage(remote) == IF remote # "" THEN remote ELSE AuthServiceFallback

AuthSuccessMessage ==
  IF authPage = "signup" THEN "Account created successfully! Redirecting to login..."
  ELSE IF authPage = "reset" THEN "Password reset successfully! Redirecting to login..."
  ELSE ""

\* The request settles: the rest of the try block or the catch block, then finally.
AuthResponse(ok, remote) ==
  /\ authReqs > 0
  /\ authReqs' = authReqs - 1
  /\ authBusy' = FALSE
  /\ IF ok
       THEN /\ authSuccess' = AuthSuccessMessage
            /\ authError' = authError
            /\ authPage' = (IF authPage = "login" THEN "dashboard" ELSE authPage)
       ELSE /\ authError' = AuthErrorMessage(remote)
            /\ UNCHANGED <<authSuccess, authPage>>
  /\ UNCHANGED <<authForm, dashVars>>

NextAuth ==
  \/ \E p \in AuthPages : Navigate(p)
  \/ \E f \in {"password", "confirm"}, v \in PwInputs : HandleChange(f, v)
  \/ HandleSubmit
  \/ \E ok \in BOOLEAN, remote \in AuthRemoteMessages : AuthResponse(ok, remote)

\* Nobody is logged in while an auth page is shown.
InitAuth == Init /\ user = [role |-> "user", id |-> ""]

SpecAuth == InitAuth /\ [][NextAuth]_vars

\* ================================================================ claims

\* The scope the specification prescribes for a list request.
EffectiveScope(role, vm) == IF role # "admin" \/ vm = "my" THEN user.id ELSE ""

\* C1: every list request in flight carries createdBy = the current user's id
\* if the role is non-admin or the view-mode its handler saw is "my", and no
\* createdBy otherwise, whichever call site sent it.
TheoremC1 ==
  \A i \in 1..Len(listReqs) :
    listReqs[i].createdBy = EffectiveScope(user.role, listReqs[i].viewSeen)

\* An admin toggled from "all" to "my" while the first request was in flight:
\* only the second request carries createdBy.
WitnessC1 ==
  /\ isAdmin /\ user.id # "" /\ Len(listReqs) = 2
  /\ listReqs[1].createdBy = "" /\ listReqs[1].viewSeen = "all"
  /\ listReqs[2].createdBy = user.id /\ listReqs[2].viewSeen = "my"

\* A step sent a list request / settled write i / settled list request i.
ListSent == Len(listReqs') = Len(listReqs) + 1 /\ SubSeq(listReqs', 1, Len(listReqs)) = listReqs
NewList == listReqs'[Len(listReqs')]
WriteSettled(i) == i \in 1..Len(mutReqs) /\ mutReqs' = RemoveAt(mutReqs, i)
ListSettled(i) == i \in 1..Len(listReqs) /\ listReqs' = RemoveAt(listReqs, i)

\* C2: every step that changes the company filter, the device-type filter,
\* the search term or the view-mode sends a list request for page 1, at once
\* or through the debounce timer it arms.
FilterChanged ==
  \/ selectedCompany' # selectedCompany
  \/ selectedDeviceType' # selectedDeviceType
  \/ searchTerm' # searchTerm
  \/ viewMode' # viewMode

PageOneRequested ==
  \/ ListSent /\ NewList.page = 1
  \/ \E t \in timers' \ timers : t.left = DebounceMs

CounterexampleC2 == [][FilterChanged => PageOneRequested]_vars

TheoremC5 ==
  [][/\ \A i \in 1..Len(mutReqs) :
          (WriteSettled(i) /\ ~lastWrite'.ok /\ mutReqs[i].kind = "create") =>
            UNCHANGED <<myAssetCount, listReqs, countReqs, assets, pagination,
                        deviceCounts, server>>
     /\ (ListSent /\ NewList.origin = "create") =>
          /\ lastWrite'.kind = "create" /\ lastWrite'.ok
          /\ server'.mine = server.mine + 1
    ]_vars

\* A create request failed while the counter showed the user's assets.
WitnessC5 ==
  /\ lastWrite.kind = "create" /\ ~lastWrite.ok
  /\ error = CreateFailedMsg
  /\ mutReqs = <<>> /\ listReqs = <<>> /\ countReqs = EmptyBag
  /\ myAssetCount = server.mine /\ myAssetCount > 0

\* C6: at most one debounce timer is pending, it is the one the last keystroke
\* armed; a burst of keystrokes fires one list request, DebounceMs after its
\* last keystroke, with the last value typed and page 1.
TheoremC6 ==
  [][/\ Cardinality(timers') <= 1
     /\ \A t \in timers' :
          /\ t.key = searchDebounceRef'
          /\ t.key.term = burst'.terms[Len(burst'.terms)]
     /\ (ListSent /\ NewList.origin = "search") =>
          /\ burst.terms # <<>>
          /\ NewList.search = burst.terms[Len(burst.terms)]
          /\ NewList.page = 1
          /\ burst.age = DebounceMs
          /\ burst'.fetches = 1
          /\ timers' = {}
    ]_vars

\* Two keystrokes less than DebounceMs apart: one request, for the second value.
WitnessC6 ==
  /\ Len(burst.terms) = 2 /\ burst.terms[1] # burst.terms[2]
  /\ burst.fetches = 1 /\ timers = {}
  /\ \E i \in 1..Len(listReqs) :
       listReqs[i].origin = "search" /\ listReqs[i].search = burst.terms[2]

\* C7: whenever no list request is in flight, the rows and pagination shown
\* are those of the most recently sent list request.
CounterexampleC7 == (listReqs = <<>>) => ~staleShown

\* C8: for a non-admin user every device-count request carries createdBy =
\* that user's id.
CounterexampleC8 ==
  ~isAdmin =>
    \A c \in BagToSet(countReqs) : c.kind = "device" => c.createdBy = user.id

\* C9: a failed write leaves in the error state the message of the remote
\* response when it has one, and a generic message otherwise.
CounterexampleC9 ==
  [][\A i \in 1..Len(mutReqs) :
       (WriteSettled(i) /\ ~lastWrite'.ok) =>
         IF lastWrite'.remote # "" THEN error' = lastWrite'.remote
         ELSE error' \in {CreateFailedMsg, UpdateFailedMsg, DeleteFailedMsg}
    ]_vars

\* C10: the creation payload has no serialNumber key when the form's serial
\* number is missing, empty, whitespace-only or the placeholder, and carries it
\* unchanged otherwise; it carries createdBy = the current user's id and every
\* other form field unchanged.
BlankSerial(sn) ==
  \/ sn = Undefined
  \/ \A i \in 1..Len(sn) : sn[i] = " "
  \/ sn = Placeholder

PayloadOk(f, b) ==
  LET sn == IF "serialNumber" \in DOMAIN f THEN f["serialNumber"] ELSE Undefined IN
    /\ BlankSerial(sn) => "serialNumber" \notin DOMAIN b
    /\ ~BlankSerial(sn) => "serialNumber" \in DOMAIN b /\ b["serialNumber"] = sn
    /\ IF user.id = "" THEN "createdBy" \notin DOMAIN b
       ELSE "createdBy" \in DOMAIN b /\ b["createdBy"] = <<"u", "1">>
    /\ \A k \in DOMAIN f \ {"serialNumber", "createdBy"} : k \in DOMAIN b /\ b[k] = f[k]
    /\ DOMAIN b \subseteq DOMAIN f \cup {"createdBy"}

TheoremC10 ==
  \A i \in 1..Len(mutReqs) :
    mutReqs[i].kind = "create" => PayloadOk(mutReqs[i].form, mutReqs[i].body)

\* A whitespace-only serial number was stripped and a given one was kept.
WitnessC10 ==
  /\ Len(mutReqs) = 2
  /\ mutReqs[1].kind = "create" /\ mutReqs[2].kind = "create"
  /\ "serialNumber" \in DOMAIN mutReqs[1].form
  /\ mutReqs[1].form["serialNumber"] = <<" ", " ">>
  /\ "serialNumber" \notin DOMAIN mutReqs[1].body
  /\ "serialNumber" \in DOMAIN mutReqs[2].body
  /\ mutReqs[2].body["serialNumber"] = <<"x", " ">>

\* C11 as stated: a reset-password or signup submission whose password has
\* fewer than 3 characters is rejected with the message "Password must be at
\* least 3 characters long", whatever the confirmation field holds.
SubmitRejected ==
  /\ authError' # authError
  /\ UNCHANGED <<authPage, authForm, authReqs, authBusy>>

ShortPassword ==
  authPage \in {"signup", "reset"} /\ Len(authForm.password) < MinPasswordLength

CounterexampleC11 == [][(ShortPassword /\ SubmitRejected) => authError' = TooShortMsg]_vars

\* C11: a reset-password or signup submission whose password has fewer than 3
\* characters sends no request and never sets the busy flag; it is rejected
\* with "Password must be at least 3 characters long" when the confirmation
\* equals the password and with "Passwords do not match" when it differs.
TheoremC11 ==
  [][ShortPassword =>
       /\ authReqs' <= authReqs
       /\ authBusy' => authBusy
       /\ SubmitRejected =>
            authError' = (IF authForm.confirm = authForm.password THEN TooShortMsg
                          ELSE MismatchMsg)
    ]_vars

\* A two-character password with the same confirmation was rejected.
WitnessC11 ==
  /\ authPage = "reset" /\ Len(authForm.password) = 2
  /\ authForm.confirm = authForm.password
  /\ authError = TooShortMsg /\ authReqs = 0 /\ ~authBusy

Blanks(n) == [i \in 1..n |-> " "]

IsTrimOf(t, s) ==
  /\ t # <<>> /\ t[1] # " " /\ t[Len(t)] # " "
  /\ \E i, j \in 0..Len(s) : s = Blanks(i) \o t \o Blanks(j)

QueryOk(r) ==
  LET q == r.query IN
    /\ {"page", "limit", "sortBy", "order"} \subseteq DOMAIN q
    /\ DOMAIN q \subseteq {"page", "limit", "sortBy", "order",
                           "search", "companyName", "device", "createdBy"}
    /\ q["page"] = r.page /\ q["limit"] = 20
    /\ q["sortBy"] = "createdAt" /\ q["order"] = "desc"
    /\ "search" \in DOMAIN q <=> \E i \in 1..Len(r.search) : r.search[i] # " "
    /\ "search" \in DOMAIN q => IsTrimOf(q["search"], r.search)
    /\ \A k \in {"companyName", "device", "createdBy"} :
         /\ k \in DOMAIN q <=> r[k] # ""
         /\ k \in DOMAIN q => q[k] = r[k]

TheoremC12 == \A i \in 1..Len(listReqs) : QueryOk(listReqs[i])

\* An admin's request for " x" under a company filter: search is sent as "x",
\* companyName is sent, device and createdBy are not.
WitnessC12 ==
  \E i \in 1..Len(listReqs) :
    /\ listReqs[i].search = <<" ", "x">>
    /\ listReqs[i].query["search"] = <<"x">>
    /\ DOMAIN listReqs[i].query = {"page", "limit", "sortBy", "order", "search", "companyName"}

\* C13: myAssetCount is never negative: over every sequence of creates,
\* deletes and scoped fetches, and a delete whose continuation finds the
\* counter at 0 leaves it at 0.
TheoremC13 == myAssetCount >= 0

\* The user's only asset was deleted: the scoped refetch of handleDeleteAsset
\* set the counter to 0 and the decrement that follows left it there.
WitnessC13 ==
  /\ lastWrite = [kind |-> "delete", ok |-> TRUE, remote |-> ""]
  /\ listReqs = <<>> /\ mutReqs = <<>>
  /\ error = NoError /\ showDeleteConfirm = NoAsset
  /\ ~isAdmin /\ acts = 2
  /\ server.mine = 0 /\ pagination.totalItems = 0
  /\ myAssetCount = 0

\* C14: every failure of a remote call of the dashboard (list, device counts,
\* create, update, delete) leaves a non-empty message in the dashboard's error
\* state.
CounterexampleC14 ==
  [][/\ \A i \in 1..Len(listReqs) : ListResponse(i, FALSE) => error' # NoError
     /\ \A i \in 1..Len(mutReqs) : \A rm \in RemoteMessages :
          MutationFailed(i, rm) => error' # NoError
     /\ \A c \in BagToSet(countReqs) :
          (c.kind = "device" /\ CountResponse(c, FALSE)) => error' # NoError]_vars

\* C15: whenever no device-counts request is in flight, the device counts
\* shown are the counts of the currently selected company.
CounterexampleC15 ==
  (phase = "mounted" /\ \A c \in BagToSet(countReqs) : c.kind # "device")
    => deviceCounts = Counts(DeviceCountReq(selectedCompany), TRUE)

\* C16: when the dashboard is torn down while a debounce timer is pending the
\* timer is cancelled: no timer is pending after the teardown and no list
\* request of the debounce callback is sent after it.
TheoremC16 ==
  [][/\ phase' = "unmounted" => timers' = {}
     /\ phase = "unmounted" => ~(ListSent /\ NewList.origin = "search")]_vars

\* Torn down after a keystroke whose timer never fired.
WitnessC16 ==
  /\ phase = "unmounted"
  /\ searchTerm \in Terms /\ burst.terms # <<>> /\ burst.fetches = 0
  /\ timers = {}

\* C17: goToPage(n) sends a list request exactly when 1 <= n <= totalPages,
\* and the request carries page n, the current search term, company and device
\* type and the createdBy scope in effect; for any other n nothing is sent and
\* the state of the dashboard is unchanged.
TheoremC17 ==
  [][\A n \in PageInputs :
       GoToPageAny(n) =>
         IF 1 <= n /\ n <= pagination.totalPages
           THEN /\ ListSent
                /\ NewList.page = n
                /\ NewList.search = searchTerm
                /\ NewList.companyName = selectedCompany
                /\ NewList.device = selectedDeviceType
                /\ NewList.createdBy = (IF isAdmin /\ viewMode = "all" THEN "" ELSE user.id)
           ELSE UNCHANGED <<uiVars, modalVars, timerVars, netVars, server>>]_vars

\* Page 2 was asked for under a typed search term by an admin in the "my" view.
WitnessC17 ==
  \E i \in 1..Len(listReqs) :
    /\ listReqs[i].origin = "page" /\ listReqs[i].page = 2
    /\ listReqs[i].search \in Terms /\ listReqs[i].search = searchTerm
    /\ isAdmin /\ viewMode = "my" /\ listReqs[i].createdBy = "u1"

\* C18: after a successful list fetch the stored list is ordered newest
\* first, a row without createdAt counting as the oldest, and is a permutation
\* of the rows of the response.
Stamp(a) == IF DOMAIN a = {"id"} THEN 0 ELSE a.createdAt

NewestFirst(s) == \A j, k \in 1..Len(s) : j < k => Stamp(s[j]) >= Stamp(s[k])

Occurrences(x, s) == Cardinality({j \in 1..Len(s) : s[j] = x})

IsPermutation(s, t) ==
  /\ Len(s) = Len(t)
  /\ \A j \in 1..Len(t) : Occurrences(t[j], s) = Occurrences(t[j], t)

TheoremC18 == NewestFirst(assets.list) /\ IsPermutation(assets.list, assets.assetData)

\* The response listed an undated row, then an older and a newer one; the
\* stored list has them in the opposite order.
WitnessC18 ==
  /\ assets.assetData = <<[id |-> 1], [id |-> 2, createdAt |-> 1], [id |-> 3, createdAt |-> 2]>>
  /\ assets.list = <<[id |-> 3, createdAt |-> 2], [id |-> 2, createdAt |-> 1], [id |-> 1]>>

\* C20: the refresh button (disabled = isLoading) stays disabled from the
\* click until the list fetch and the counts fetch of that refresh have both
\* settled: it is disabled while the list request of a refresh is in flight,
\* and still disabled at the step where that request settles and the counts
\* fetch of the refresh starts.
CounterexampleC20 ==
  [][/\ (\E i \in 1..Len(listReqs') : listReqs'[i].origin = "refresh") => isLoading'
     /\ \A i \in 1..Len(listReqs) :
          (ListSettled(i) /\ listReqs[i].origin = "refresh") => isLoading']_vars

\* C21: in every state the displayed rows are exactly the loaded rows that
\* match the company filter, when one is set, and the device filter, when one
\* is set, in the order of the loaded page.
MatchesFilters(a) ==
  /\ selectedCompany # "" => a.companyName = selectedCompany
  /\ selectedDeviceType # "" => a.device = selectedDeviceType

MatchingPositions == {j \in 1..Len(assets.list) : MatchesFilters(assets.list[j])}

\* The k-th matching position of the loaded page.
NthMatching(k) ==
  CHOOSE j \in MatchingPositions : Cardinality({m \in MatchingPositions : m <= j}) = k

TheoremC21 ==
  /\ Len(displayedAssets) = Cardinality(MatchingPositions)
  /\ \A k \in 1..Len(displayedAssets) : displayedAssets[k] = assets.list[NthMatching(k)]

\* Company TGL is selected over a page loaded before: its first row is of
\* another company and is not displayed, and a list request is in flight.
WitnessC21 ==
  /\ selectedCompany = "TGL" /\ listReqs # <<>>
  /\ Len(assets.list) = 2
  /\ assets.list[1].companyName = "ACME" /\ assets.list[2].companyName = "TGL"
  /\ displayedAssets = <<assets.list[2]>>

\* C22: when the scoped refetch of a successful create or delete succeeds,
\* myAssetCount equals the totalItems that refetch reported once the handler
\* has finished.
CounterexampleC22 ==
  [][\A i \in 1..Len(listReqs) :
       (/\ listReqs[i].origin \in {"create", "delete"}
        /\ listReqs[i].createdBy # ""
        /\ ListResponse(i, TRUE) /\ error' # ListFailedMsg)
       => myAssetCount' = pagination'.totalItems]_vars

\* C23: the list request sent when the debounce timer fires carries the
\* createdBy scope of the view-mode and the company and device filters in
\* effect at the moment it is sent.
CounterexampleC23 ==
  [][(ListSent /\ NewList.origin = "search") =>
       /\ NewList.createdBy = (IF isAdmin /\ viewMode = "all" THEN "" ELSE user.id)
       /\ NewList.companyName = selectedCompany
       /\ NewList.device = selectedDeviceType]_vars

\* C24: isLoading is true in every state in which a list fetch started with
\* showLoading = true is still in flight.
CounterexampleC24 ==
  (\E i \in 1..Len(listReqs) : listReqs[i].showLoading) => isLoading

\* C25: for one delete confirmation at most one DELETE request for the asset
\* is sent: no two delete requests for the same id are in flight.
CounterexampleC25 ==
  \A i, j \in 1..Len(mutReqs) :
    (mutReqs[i].kind = "delete" /\ mutReqs[j].kind = "delete" /\ mutReqs[i].id = mutReqs[j].id)
      => i = j

\* C26: a refresh click clears the search: afterwards, until the next
\* keystroke, no list request with the term typed before is sent, so every
\* request the debounce timer sends carries the search term of the state.
CounterexampleC26 ==
  [][(ListSent /\ NewList.origin = "search") => NewList.search = searchTerm]_vars

CreatorOfRow(a) ==
  IF DOMAIN a = {"id"} THEN "nobody"
  ELSE IF DOMAIN a.createdBy = {"type", "value"} THEN a.createdBy.value
  ELSE a.createdBy._id

TheoremC28 ==
  /\ \A j \in 1..Len(displayedAssets) :
       ActionsOffered(j) =>
         /\ CreatorOfRow(displayedAssets[j]) = user.id
         /\ ~(user.role = "admin" /\ viewMode = "all")
  /\ \A i \in 1..Len(mutReqs) :
       mutReqs[i].kind \in {"update", "delete"} => OwnerOf(mutReqs[i].id) = user.id

\* An admin in the "my" view sees a row of user u2 and an own row with a
\* populated creator, and has sent a delete request for the own one.
WitnessC28 ==
  /\ isAdmin /\ viewMode = "my"
  /\ Len(displayedAssets) = 2
  /\ displayedAssets[1] = [id |-> "a2", createdBy |-> [type |-> "string", value |-> "u2"]]
  /\ displayedAssets[2] = [id |-> AssetId, createdBy |-> [type |-> "object", _id |-> "u1"]]
  /\ \E i \in 1..Len(mutReqs) : mutReqs[i].kind = "delete" /\ mutReqs[i].id = AssetId

\* C29: once the dashboard has mounted, for every role and user record, and
\* provided every request settles, isLoading eventually becomes false.
CounterexampleC29 == (phase = "mounted") ~> ~isLoading

\* C30: for 1 <= currentPage <= totalPages the page list has strictly
\* increasing numbers of 1..totalPages, among them 1, totalPages and
\* currentPage; it lists every page when totalPages <= 5 and has at most 7
\* entries otherwise, and each ellipsis stands between two numbers that are
\* not consecutive.
PageListOk(p, currentPage, totalPages) ==
  LET numeric == {j \in 1..Len(p) : p[j] # Ellipsis} IN
    /\ \A j, k \in numeric : j < k => p[j] < p[k]
    /\ \A j \in numeric : p[j] \in 1..totalPages
    /\ {1, totalPages, currentPage} \subseteq {p[j] : j \in numeric}
    /\ IF totalPages <= 5 THEN Len(p) = totalPages /\ numeric = 1..totalPages
       ELSE Len(p) <= 7
    /\ \A j \in (1..Len(p)) \ numeric :
         /\ j - 1 \in numeric /\ j + 1 \in numeric
         /\ p[j + 1] > p[j - 1] + 1

TheoremC30 ==
  (1 <= pagination.currentPage /\ pagination.currentPage <= pagination.totalPages)
    => PageListOk(GetPageNumbers, pagination.currentPage, pagination.totalPages)

\* Page 4 of 7: both ellipses are shown.
WitnessC30 ==
  /\ pagination.currentPage = 4 /\ pagination.totalPages = 7
  /\ GetPageNumbers = <<1, Ellipsis, 3, 4, 5, Ellipsis, 7>>

====
